---- MODULE Spec2Model ----
(***************************************************************************)
(* Order-management API (FastAPI over PostgreSQL): the category hierarchy, *)
(* its tree / children-count / statistics reports and the CRUD handlers    *)
(* that write the tables those reports read.                               *)
(*                                                                         *)
(* Conventions of the model                                                *)
(*   - SQL NULL in an integer column is Null (0); serial ids start at 1,   *)
(*     so 0 never identifies a row.                                        *)
(*   - An optional request field that was not sent (Python None) is None.  *)
(*   - A category name is modelled by its rank in the collation order      *)
(*     (1 < 2 < ...), a price / quantity by a small natural number.        *)
(*   - `response` is the HTTP response of the last request handled.        *)
(***************************************************************************)
EXTENDS Integers, Sequences, FiniteSets, TLC

\* ---------------------------------------------------------------- bounds
MaxCat == 3          \* category ids handed out by the serial column
MaxName == 2         \* distinct category names
MaxLevel == 2        \* cap on the stored level column (it can grow without bound)
MaxStatCat == 2      \* categories in the tables the statistics reports are applied to
MaxNom == 2          \* nomenclature ids handed out by the serial column
MaxPrice == 2        \* prices 1..MaxPrice
MaxQty == 2          \* quantities 0..MaxQty
MaxPage == 2         \* page numbers 0..MaxPage
MaxClient == 1       \* client ids handed out by the serial column
MaxOrder == 2        \* order ids handed out by the serial column
MaxItems == 2        \* items of one order request
MaxDepth == 5        \* levels 0..MaxDepth of the chain of categories the hierarchy lists
MaxSummaryClient == 2 \* clients in the tables the client order summary is applied to
MaxWorker == 2       \* server processes handling requests against the one database
ShortTTL == 60       \* the ttl of a cached() that names one, in seconds

\* PaginationParams: page = Field(1, ge=1), size = Field(20, ge=1, le=100)
DefaultPage == 1
DefaultPageSize == 20
MaxPageSize == 100

\* Settings.CACHE_TTL, in seconds
CACHE_TTL == 300

\* Order.total_amount: default=0.00
DefaultTotalAmount == 0

Null == 0
None == 0 - 1

CatIds == 1..MaxCat
NameSet == 1..MaxName
OptBool == {"None", "True", "False"}
\* OrderStatus
OrderStatuses == {"pending", "processing", "completed", "cancelled", "refunded"}

VARIABLES
    categories,      \* app.categories: id -> row
    cat_seq,         \* next value of the categories id sequence
    nomenclature,    \* app.nomenclature: id -> row
    nom_seq,         \* next value of the nomenclature id sequence
    clients,         \* app.clients: id -> row
    client_seq,      \* next value of the clients id sequence
    orders,          \* app.orders: id -> row
    order_seq,       \* next value of the orders id sequence
    order_items,     \* app.order_items: set of rows, (order_id, nomenclature_id) unique
    redis_client,    \* CacheManager.redis_client: "None" or "client"
    redis_up,        \* whether the Redis server answers
    redis_store,     \* the keys held by the Redis server: key -> [value, ttl]
    response,        \* response of the last request
    in_flight        \* worker -> the request whose handler it is in the middle of

vars == <<categories, cat_seq, nomenclature, nom_seq,
          clients, client_seq, orders, order_seq, order_items,
          redis_client, redis_up, redis_store, response, in_flight>>

\* the tables of clients and orders, and the cache
sales == <<clients, client_seq, orders, order_seq, order_items>>
cache == <<redis_client, redis_up, redis_store>>

\* A handler is an async def without an await: the requests of one server
\* process run one after the other, each handler to its end.  Requests served
\* by different processes meet in the database only, where the statements of
\* their handlers interleave.  in_flight[w] is the request that process w has
\* taken through its checks and whose writes are still to come.
Workers == 1..MaxWorker
Idle == [handler |-> "none", args |-> <<>>]
NoRequests == in_flight = [w \in Workers |-> Idle]

Resp(op, args, status, body) == [op |-> op, args |-> args, status |-> status, body |-> body]

\* ------------------------------------------------------------ sequences
RECURSIVE SeqSum(_)
SeqSum(s) == IF s = <<>> THEN 0 ELSE Head(s) + SeqSum(Tail(s))

RECURSIVE Concat(_)
Concat(ss) == IF ss = <<>> THEN <<>> ELSE Head(ss) \o Concat(Tail(ss))

\* the sum of f over the elements of S
RECURSIVE SumFn(_, _)
SumFn(f, S) ==
    IF S = {} THEN 0
    ELSE LET x == CHOOSE y \in S : TRUE
         IN  f[x] + SumFn(f, S \ {x})

Min2(a, b) == IF a < b THEN a ELSE b
Max2(a, b) == IF a > b THEN a ELSE b

\* text comparison of two materialized paths (sequences of ids)
PathLess(a, b) ==
    \/ /\ Len(a) < Len(b)
       /\ \A j \in 1..Len(a) : a[j] = b[j]
    \/ \E i \in 1..Min2(Len(a), Len(b)) :
          /\ a[i] < b[i]
          /\ \A j \in 1..(i - 1) : a[j] = b[j]

\* -------------------------------------------------- categories: trigger
\* BEFORE INSERT / UPDATE row trigger update_category_path: level and path of
\* the written row are taken from its parent row as stored before the
\* statement; rows below the written row are not touched.
update_category_path(cats, id, row) ==
    IF row.parent_id = Null
    THEN [row EXCEPT !.level = 0, !.path = <<id>>]
    ELSE [row EXCEPT !.level = cats[row.parent_id].level + 1,
                     !.path = Append(cats[row.parent_id].path, id)]

ActiveCategory(cats, id) == id \in DOMAIN cats /\ cats[id].is_active

\* ------------------------------------------------------ create_category
CreateCategoryStatus(cats, name, parent_id) ==
    IF parent_id >= 1 /\ ~ActiveCategory(cats, parent_id) THEN 400
    ELSE IF \E c \in DOMAIN cats :
               /\ cats[c].name = name
               /\ parent_id # None /\ cats[c].parent_id # Null
               /\ cats[c].parent_id = parent_id
               /\ cats[c].is_active
         THEN 400
    ELSE IF parent_id = 0 THEN 500
    ELSE 200

NewCategoryRow(cats, id, name, parent_id) ==
    update_category_path(cats, id,
        [name |-> name,
         parent_id |-> IF parent_id = None THEN Null ELSE parent_id,
         level |-> 0, path |-> <<>>, is_active |-> TRUE])

RowBody(id, row) ==
    <<[id |-> id, name |-> row.name, parent_id |-> row.parent_id,
       level |-> row.level, path |-> row.path, is_active |-> row.is_active]>>

create_category(name, parent_id) ==
    LET st == CreateCategoryStatus(categories, name, parent_id)
        id == cat_seq
        row == NewCategoryRow(categories, id, name, parent_id)
    IN  /\ cat_seq <= MaxCat
        /\ st = 200 => row.level <= MaxLevel
        /\ IF st = 200
           THEN /\ categories' = [c \in DOMAIN categories \cup {id} |->
                                     IF c = id THEN row ELSE categories[c]]
                /\ cat_seq' = cat_seq + 1
                /\ response' = Resp("create_category", <<>>, 200, RowBody(id, row))
           ELSE /\ categories' = categories
                /\ cat_seq' = IF st = 500 THEN cat_seq + 1 ELSE cat_seq
                /\ response' = Resp("create_category", <<>>, st, <<>>)
        /\ UNCHANGED <<nomenclature, nom_seq, sales, cache, in_flight>>

\* ------------------------------------------------------ update_category
UpdateCategoryStatus(cats, id, name, parent_id, is_active) ==
    IF id \notin DOMAIN cats THEN 404
    ELSE IF parent_id >= 1 /\ ~ActiveCategory(cats, parent_id) THEN 400
    ELSE IF name = None /\ parent_id = None /\ is_active = "None" THEN 400
    ELSE IF parent_id = 0 THEN 500
    ELSE 200

\* Request bodies of update_category: at most one field sent.  A request that
\* sends several fields writes what the one-field requests write one after
\* the other, so the tables reached are the same.
CategoryUpdates ==
    {r \in [name : NameSet \cup {None}, parent_id : {None, 0} \cup CatIds,
            is_active : OptBool] :
        Cardinality({f \in {"n", "p", "a"} :
            \/ f = "n" /\ r.name # None
            \/ f = "p" /\ r.parent_id # None
            \/ f = "a" /\ r.is_active # "None"}) <= 1}

\* the row as written by UPDATE ... SET <the fields that were sent>
UpdatedCategoryRow(cats, id, name, parent_id, is_active) ==
    LET old == cats[id]
        set == [old EXCEPT
                  !.name = IF name = None THEN @ ELSE name,
                  !.parent_id = IF parent_id = None THEN @ ELSE parent_id,
                  !.is_active = IF is_active = "None" THEN @ ELSE (is_active = "True")]
    IN  IF set.parent_id # old.parent_id
        THEN update_category_path(cats, id, set)
        ELSE set

update_category(id, name, parent_id, is_active) ==
    LET st == UpdateCategoryStatus(categories, id, name, parent_id, is_active)
        row == UpdatedCategoryRow(categories, id, name, parent_id, is_active)
    IN  /\ st = 200 => row.level <= MaxLevel
        /\ IF st = 200
           THEN /\ categories' = [categories EXCEPT ![id] = row]
                /\ response' = Resp("update_category", <<>>, 200, RowBody(id, row))
           ELSE /\ categories' = categories
                /\ response' = Resp("update_category", <<>>, st, <<>>)
        /\ UNCHANGED <<cat_seq, nomenclature, nom_seq, sales, cache, in_flight>>

\* ------------------------------------------------------ delete_category
\* (mutant) the children count looks at active children only
DeleteCategoryStatusActiveChildren(cats, noms, id) ==
    IF id \notin DOMAIN cats THEN 404
    ELSE IF \E c \in DOMAIN cats : cats[c].parent_id = id /\ cats[c].is_active THEN 400
    ELSE IF \E n \in DOMAIN noms : noms[n].category_id = id THEN 400
    ELSE 200

DeleteCategoryStatus(cats, noms, id) ==
    IF id \notin DOMAIN cats THEN 404
    ELSE IF \E c \in DOMAIN cats : cats[c].parent_id = id THEN 400
    ELSE IF \E n \in DOMAIN noms : noms[n].category_id = id THEN 400
    ELSE 200

delete_category(id) ==
    LET st == DeleteCategoryStatus(categories, nomenclature, id)
    IN  /\ categories' = IF st = 200
                         THEN [c \in DOMAIN categories \ {id} |-> categories[c]]
                         ELSE categories
        /\ response' = Resp("delete_category", <<>>, st, <<>>)
        /\ UNCHANGED <<cat_seq, nomenclature, nom_seq, sales, cache, in_flight>>

\* ------------------------------------- delete_category, in several processes
\* the SELECTs of delete_category: the row, the count of its children and the
\* count of its articles; a request that passes them stands before its DELETE
delete_category_checks(w, id) ==
    LET st == DeleteCategoryStatus(categories, nomenclature, id)
    IN  /\ in_flight[w] = Idle
        /\ IF st = 200
           THEN /\ in_flight' = [in_flight EXCEPT
                                    ![w] = [handler |-> "delete_category", args |-> <<id>>]]
                /\ UNCHANGED response
           ELSE /\ response' = Resp("delete_category", <<>>, st, <<>>)
                /\ UNCHANGED in_flight
        /\ UNCHANGED <<categories, cat_seq, nomenclature, nom_seq, sales, cache>>

\* Category.parent_id, ondelete="CASCADE": the rows that go with row id, the
\* rows below it at any depth
RECURSIVE Cascade(_, _)
Cascade(cats, ids) ==
    LET below == {c \in DOMAIN cats : cats[c].parent_id \in ids}
    IN  IF below \subseteq ids THEN ids ELSE Cascade(cats, ids \cup below)

\* DELETE FROM app.categories WHERE id = :category_id, and the commit.
\* Nomenclature.category_id, ondelete="RESTRICT": an article under a row to be
\* removed makes the statement fail, the handler does not catch the error.
delete_category_deletes(w) ==
    LET id == in_flight[w].args[1]
        gone == Cascade(categories, {id} \cap DOMAIN categories)
        restricted == \E n \in DOMAIN nomenclature : nomenclature[n].category_id \in gone
    IN  /\ in_flight[w].handler = "delete_category"
        /\ categories' = IF restricted THEN categories
                         ELSE [c \in DOMAIN categories \ gone |-> categories[c]]
        /\ response' = Resp("delete_category", <<>>, IF restricted THEN 500 ELSE 200, <<>>)
        /\ in_flight' = [in_flight EXCEPT ![w] = Idle]
        /\ UNCHANGED <<cat_seq, nomenclature, nom_seq, sales, cache>>

\* --------------------------------------------------- create_nomenclature
\* An article number (sku) is modelled by a number >= 1; a request without
\* sku carries None and the column is left NULL.
CreateNomenclatureStatus(cats, noms, sku, category_id) ==
    IF ~ActiveCategory(cats, category_id) THEN 400
    ELSE IF sku # None /\ \E n \in DOMAIN noms : noms[n].sku = sku THEN 400
    ELSE 200

NewNomenclatureRow(sku, quantity, price, category_id) ==
    [sku |-> IF sku = None THEN Null ELSE sku,
     quantity |-> quantity, price |-> price,
     category_id |-> category_id, is_active |-> TRUE]

create_nomenclature(sku, quantity, price, category_id) ==
    LET st == CreateNomenclatureStatus(categories, nomenclature, sku, category_id)
        id == nom_seq
        row == NewNomenclatureRow(sku, quantity, price, category_id)
    IN  /\ nom_seq <= MaxNom
        /\ IF st = 200
           THEN /\ nomenclature' = [n \in DOMAIN nomenclature \cup {id} |->
                                       IF n = id THEN row ELSE nomenclature[n]]
                /\ nom_seq' = nom_seq + 1
                /\ response' = Resp("create_nomenclature", <<>>, 200, <<id>>)
           ELSE /\ UNCHANGED <<nomenclature, nom_seq>>
                /\ response' = Resp("create_nomenclature", <<>>, st, <<>>)
        /\ UNCHANGED <<categories, cat_seq, sales, cache, in_flight>>

\* --------------------------------------------------- update_nomenclature
UpdateNomenclatureStatus(cats, noms, id, r) ==
    IF id \notin DOMAIN noms THEN 404
    ELSE IF r.category_id >= 1 /\ ~ActiveCategory(cats, r.category_id) THEN 400
    ELSE IF r.sku # None /\ \E n \in DOMAIN noms \ {id} : noms[n].sku = r.sku THEN 400
    ELSE IF /\ r.sku = None /\ r.quantity = None /\ r.price = None
            /\ r.category_id = None /\ r.is_active = "None" THEN 400
    ELSE IF r.category_id = 0 THEN 500
    ELSE 200

\* Request bodies of update_nomenclature: at most one field sent.
NomenclatureUpdates ==
    {r \in [sku : {None, 1}, quantity : {None} \cup 0..MaxQty,
            price : {None} \cup 1..MaxPrice, category_id : {None, 0} \cup CatIds,
            is_active : OptBool] :
        Cardinality({f \in {"s", "q", "p", "c", "a"} :
            \/ f = "s" /\ r.sku # None
            \/ f = "q" /\ r.quantity # None
            \/ f = "p" /\ r.price # None
            \/ f = "c" /\ r.category_id # None
            \/ f = "a" /\ r.is_active # "None"}) <= 1}

UpdatedNomenclatureRow(noms, id, r) ==
    [noms[id] EXCEPT
        !.sku = IF r.sku = None THEN @ ELSE r.sku,
        !.quantity = IF r.quantity = None THEN @ ELSE r.quantity,
        !.price = IF r.price = None THEN @ ELSE r.price,
        !.category_id = IF r.category_id = None THEN @ ELSE r.category_id,
        !.is_active = IF r.is_active = "None" THEN @ ELSE (r.is_active = "True")]

update_nomenclature(id, r) ==
    LET st == UpdateNomenclatureStatus(categories, nomenclature, id, r)
    IN  /\ nomenclature' = IF st = 200
                           THEN [nomenclature EXCEPT
                                    ![id] = UpdatedNomenclatureRow(nomenclature, id, r)]
                           ELSE nomenclature
        /\ response' = Resp("update_nomenclature", <<>>, st, <<>>)
        /\ UNCHANGED <<categories, cat_seq, nom_seq, sales, cache, in_flight>>

\* --------------------------------------------------- delete_nomenclature
DeleteNomenclatureStatus(noms, items, id) ==
    IF id \notin DOMAIN noms THEN 404
    ELSE IF \E oi \in items : oi.nomenclature_id = id THEN 400
    ELSE 200

delete_nomenclature(id) ==
    LET st == DeleteNomenclatureStatus(nomenclature, order_items, id)
    IN  /\ nomenclature' = IF st = 200
                           THEN [n \in DOMAIN nomenclature \ {id} |-> nomenclature[n]]
                           ELSE nomenclature
        /\ response' = Resp("delete_nomenclature", <<>>, st, <<>>)
        /\ UNCHANGED <<categories, cat_seq, nom_seq, sales, cache, in_flight>>

\* --------------------------------------------------------- create_client
\* A name and an email address are modelled by numbers >= 1; a request
\* without email carries None and the column is left NULL.
CreateClientStatus(cls, email) ==
    IF email # None /\ \E c \in DOMAIN cls : cls[c].email = email THEN 400
    ELSE 200

NewClientRow(name, email) ==
    [name |-> name, email |-> IF email = None THEN Null ELSE email, is_active |-> TRUE]

create_client(name, email) ==
    LET st == CreateClientStatus(clients, email)
        id == client_seq
    IN  /\ client_seq <= MaxClient
        /\ IF st = 200
           THEN /\ clients' = [c \in DOMAIN clients \cup {id} |->
                                  IF c = id THEN NewClientRow(name, email) ELSE clients[c]]
                /\ client_seq' = client_seq + 1
                /\ response' = Resp("create_client", <<>>, 200, <<id>>)
           ELSE /\ UNCHANGED <<clients, client_seq>>
                /\ response' = Resp("create_client", <<>>, st, <<>>)
        /\ UNCHANGED <<categories, cat_seq, nomenclature, nom_seq,
                       orders, order_seq, order_items, cache, in_flight>>

\* --------------------------------------------------------- update_client
UpdateClientStatus(cls, id, email, is_active) ==
    IF id \notin DOMAIN cls THEN 404
    ELSE IF email # None /\ \E c \in DOMAIN cls \ {id} : cls[c].email = email THEN 400
    ELSE IF email = None /\ is_active = "None" THEN 400
    ELSE 200

UpdatedClientRow(cls, id, email, is_active) ==
    [cls[id] EXCEPT
        !.email = IF email = None THEN @ ELSE email,
        !.is_active = IF is_active = "None" THEN @ ELSE (is_active = "True")]

update_client(id, email, is_active) ==
    LET st == UpdateClientStatus(clients, id, email, is_active)
    IN  /\ clients' = IF st = 200
                      THEN [clients EXCEPT ![id] = UpdatedClientRow(clients, id, email, is_active)]
                      ELSE clients
        /\ response' = Resp("update_client", <<>>, st, <<>>)
        /\ UNCHANGED <<categories, cat_seq, nomenclature, nom_seq, client_seq,
                       orders, order_seq, order_items, cache, in_flight>>

\* --------------------------------------------------------- delete_client
\* (mutant) the orders of the client are not counted
DeleteClientStatusNoOrdersCheck(cls, ords, id) ==
    IF id \notin DOMAIN cls THEN 404
    ELSE 200

DeleteClientStatus(cls, ords, id) ==
    IF id \notin DOMAIN cls THEN 404
    ELSE IF \E o \in DOMAIN ords : ords[o].client_id = id THEN 400
    ELSE 200

delete_client(id) ==
    LET st == DeleteClientStatus(clients, orders, id)
    IN  /\ clients' = IF st = 200
                      THEN [c \in DOMAIN clients \ {id} |-> clients[c]]
                      ELSE clients
        /\ response' = Resp("delete_client", <<>>, st, <<>>)
        /\ UNCHANGED <<categories, cat_seq, nomenclature, nom_seq, client_seq,
                       orders, order_seq, order_items, cache, in_flight>>

\* ---------------------------------------------------------- create_order
\* A request: [client_id, status, items], items a sequence of
\* [nomenclature_id, quantity, price, total_price].
ItemsOk == [detail |-> "ok", nomenclature_id |-> Null]

\* (mutant) stock and price are compared for the first item only
RECURSIVE CheckItemsFirstOnly(_, _)
CheckItemsFirstOnly(noms, items) ==
    IF items = <<>> THEN ItemsOk
    ELSE LET item == Head(items)
             found == item.nomenclature_id \in DOMAIN noms
                          /\ noms[item.nomenclature_id].is_active
         IN  IF ~found
             THEN [detail |-> "not found", nomenclature_id |-> item.nomenclature_id]
             ELSE IF noms[item.nomenclature_id].quantity < item.quantity
             THEN [detail |-> "insufficient", nomenclature_id |-> item.nomenclature_id]
             ELSE IF item.price # noms[item.nomenclature_id].price
             THEN [detail |-> "price changed", nomenclature_id |-> item.nomenclature_id]
             ELSE IF \A i \in 1..Len(items) :
                        /\ items[i].nomenclature_id \in DOMAIN noms
                        /\ noms[items[i].nomenclature_id].is_active
                  THEN ItemsOk
             ELSE [detail |-> "not found", nomenclature_id |-> Null]

\* the validation loop: the detail of the first item that is rejected, "ok"
\* when every item passes
RECURSIVE CheckItems(_, _)
CheckItems(noms, items) ==
    IF items = <<>> THEN ItemsOk
    ELSE LET item == Head(items)
             found == item.nomenclature_id \in DOMAIN noms
                          /\ noms[item.nomenclature_id].is_active
         IN  IF ~found
             THEN [detail |-> "not found", nomenclature_id |-> item.nomenclature_id]
             ELSE IF noms[item.nomenclature_id].quantity < item.quantity
             THEN [detail |-> "insufficient", nomenclature_id |-> item.nomenclature_id]
             ELSE IF item.price # noms[item.nomenclature_id].price
             THEN [detail |-> "price changed", nomenclature_id |-> item.nomenclature_id]
             ELSE CheckItems(noms, Tail(items))

\* 400 from the checks of the handler; 500 when the second INSERT of the same
\* item into one order breaks unique_order_nomenclature (nothing is committed)
CreateOrderStatus(cls, noms, order) ==
    IF ~(order.client_id \in DOMAIN cls /\ cls[order.client_id].is_active)
    THEN [status |-> 400, detail |-> [detail |-> "client", nomenclature_id |-> Null]]
    ELSE IF CheckItems(noms, order.items) # ItemsOk
    THEN [status |-> 400, detail |-> CheckItems(noms, order.items)]
    ELSE IF \E i, j \in 1..Len(order.items) :
               i # j /\ order.items[i].nomenclature_id = order.items[j].nomenclature_id
    THEN [status |-> 500,
          detail |-> [detail |-> "unique_order_nomenclature", nomenclature_id |-> Null]]
    ELSE [status |-> 200, detail |-> ItemsOk]

\* the nomenclature ids of the items of a request, in the order of the request
ItemIds(items) == [i \in 1..Len(items) |-> items[i].nomenclature_id]

\* the rows INSERTed into app.order_items for order id
NewOrderItems(id, items) ==
    {[order_id |-> id, nomenclature_id |-> items[i].nomenclature_id,
      quantity |-> items[i].quantity, price |-> items[i].price,
      total_price |-> items[i].total_price] : i \in 1..Len(items)}

\* (mutant) one unit is taken from the stock for every item, whatever its quantity
RECURSIVE StockAfterOrderOneUnit(_, _)
StockAfterOrderOneUnit(noms, items) ==
    IF items = <<>> THEN noms
    ELSE StockAfterOrderOneUnit(
             [noms EXCEPT ![Head(items).nomenclature_id].quantity = @ - 1],
             Tail(items))

\* UPDATE app.nomenclature SET quantity = quantity - :quantity, once per item
RECURSIVE StockAfterOrder(_, _)
StockAfterOrder(noms, items) ==
    IF items = <<>> THEN noms
    ELSE StockAfterOrder(
             [noms EXCEPT ![Head(items).nomenclature_id].quantity = @ - Head(items).quantity],
             Tail(items))

\* total_amount is returned by the INSERT of the order row, before any item
\* row exists: it is the default of the column.
create_order(order) ==
    LET r == CreateOrderStatus(clients, nomenclature, order)
        id == order_seq
    IN  /\ order_seq <= MaxOrder
        /\ IF r.status = 200
           THEN /\ orders' = [o \in DOMAIN orders \cup {id} |->
                                 IF o = id
                                 THEN [client_id |-> order.client_id, status |-> order.status]
                                 ELSE orders[o]]
                /\ order_items' = order_items \cup NewOrderItems(id, order.items)
                /\ nomenclature' = StockAfterOrder(nomenclature, order.items)
                /\ order_seq' = order_seq + 1
                /\ response' = Resp("create_order", ItemIds(order.items), 200,
                                    [id |-> id, total_amount |-> DefaultTotalAmount,
                                     items_count |-> Len(order.items)])
           ELSE /\ UNCHANGED <<orders, order_items, nomenclature>>
                /\ order_seq' = IF r.status = 500 THEN order_seq + 1 ELSE order_seq
                /\ response' = Resp("create_order", ItemIds(order.items), r.status, r.detail)
        /\ UNCHANGED <<categories, cat_seq, nom_seq, clients, client_seq, cache, in_flight>>

\* ---------------------------------------------------------- update_order
\* Of the fields of OrderUpdate the status is modelled; a request without
\* status carries None and sends nothing else.
UpdateOrderStatus(ords, id, status) ==
    IF id \notin DOMAIN ords THEN 404
    ELSE IF status = "None" THEN 400
    ELSE 200

update_order(id, status) ==
    LET st == UpdateOrderStatus(orders, id, status)
    IN  /\ orders' = IF st = 200 THEN [orders EXCEPT ![id].status = status] ELSE orders
        /\ response' = Resp("update_order", <<>>, st, <<>>)
        /\ UNCHANGED <<categories, cat_seq, nomenclature, nom_seq, clients, client_seq,
                       order_seq, order_items, cache, in_flight>>

\* ---------------------------------------------------------- delete_order
\* (mutant) only a completed order is protected
DeleteOrderStatusCompletedOnly(ords, id) ==
    IF id \notin DOMAIN ords THEN 404
    ELSE IF ords[id].status \in {"completed"} THEN 400
    ELSE 200

DeleteOrderStatus(ords, id) ==
    IF id \notin DOMAIN ords THEN 404
    ELSE IF ords[id].status \in {"completed", "processing"} THEN 400
    ELSE 200

\* UPDATE app.nomenclature SET quantity = quantity + :quantity, once per item
\* row of the order
StockAfterReturn(noms, items, id) ==
    [n \in DOMAIN noms |->
        [noms[n] EXCEPT !.quantity =
            @ + SumFn([oi \in items |-> oi.quantity],
                      {oi \in items : oi.order_id = id /\ oi.nomenclature_id = n})]]

\* DELETE FROM app.orders; the item rows go with it (ondelete CASCADE)
delete_order(id) ==
    LET st == DeleteOrderStatus(orders, id)
    IN  /\ \A n \in DOMAIN nomenclature :
              StockAfterReturn(nomenclature, order_items, id)[n].quantity <= MaxQty
        /\ IF st = 200
           THEN /\ nomenclature' = StockAfterReturn(nomenclature, order_items, id)
                /\ orders' = [o \in DOMAIN orders \ {id} |-> orders[o]]
                /\ order_items' = {oi \in order_items : oi.order_id # id}
           ELSE UNCHANGED <<nomenclature, orders, order_items>>
        /\ response' = Resp("delete_order", <<>>, st, <<>>)
        /\ UNCHANGED <<categories, cat_seq, nom_seq, clients, client_seq, order_seq, cache, in_flight>>

\* --------------------------------------- create_order, in several processes
InFlight(handler) == {w \in Workers : in_flight[w].handler = handler}

\* the SELECTs of create_order, from the client to the price of the last item:
\* a request that passes them all stands before its INSERT
create_order_checks(w, order) ==
    LET r == CreateOrderStatus(clients, nomenclature, order)
    IN  /\ in_flight[w] = Idle
        /\ order_seq + Cardinality(InFlight("create_order")) <= MaxOrder
        /\ IF r.status = 400
           THEN /\ response' = Resp("create_order", ItemIds(order.items), 400, r.detail)
                /\ UNCHANGED in_flight
           ELSE /\ in_flight' = [in_flight EXCEPT
                                    ![w] = [handler |-> "create_order", args |-> order]]
                /\ UNCHANGED response
        /\ UNCHANGED <<categories, cat_seq, nomenclature, nom_seq, sales, cache>>

\* the INSERTs and UPDATEs of create_order and its commit.  The UPDATE takes
\* the item's quantity from the stock the row holds when it runs; what the
\* SELECT had read is not looked at again.
create_order_writes(w) ==
    LET order == in_flight[w].args
        id == order_seq
        unique == \A i, j \in 1..Len(order.items) :
                      i # j => order.items[i].nomenclature_id # order.items[j].nomenclature_id
    IN  /\ in_flight[w].handler = "create_order"
        /\ IF unique
           THEN /\ orders' = [o \in DOMAIN orders \cup {id} |->
                                 IF o = id
                                 THEN [client_id |-> order.client_id, status |-> order.status]
                                 ELSE orders[o]]
                /\ order_items' = order_items \cup NewOrderItems(id, order.items)
                /\ nomenclature' = StockAfterOrder(nomenclature, order.items)
                /\ response' = Resp("create_order", ItemIds(order.items), 200,
                                    [id |-> id, total_amount |-> DefaultTotalAmount,
                                     items_count |-> Len(order.items)])
           ELSE /\ UNCHANGED <<orders, order_items, nomenclature>>
                /\ response' = Resp("create_order", ItemIds(order.items), 500,
                                    [detail |-> "unique_order_nomenclature",
                                     nomenclature_id |-> Null])
        /\ order_seq' = order_seq + 1
        /\ in_flight' = [in_flight EXCEPT ![w] = Idle]
        /\ UNCHANGED <<categories, cat_seq, nom_seq, clients, client_seq, cache>>

\* ---------------------------------------------------- get_category_tree
\* One row of the recursive query category_tree / category_hierarchy.
CteRow(cats, c, depth, full_path) ==
    [id |-> c, name |-> cats[c].name, parent_id |-> cats[c].parent_id,
     level |-> cats[c].level, path |-> cats[c].path,
     depth |-> depth, full_path |-> full_path]

\* non-recursive term: the active rows without a parent
CteAnchor(cats) ==
    {CteRow(cats, c, 0, <<cats[c].name>>) :
        c \in {d \in DOMAIN cats : cats[d].parent_id = Null /\ cats[d].is_active}}

\* recursive term, iterated on the working table until it yields no row
RECURSIVE CteRecursive(_, _)
CteRecursive(cats, work) ==
    IF work = {} THEN {}
    ELSE LET new == UNION {
                 {CteRow(cats, c, w.depth + 1, Append(w.full_path, cats[c].name)) :
                     c \in {d \in DOMAIN cats : cats[d].parent_id = w.id /\ cats[d].is_active}}
                 : w \in work}
         IN  new \cup CteRecursive(cats, new)

category_tree(cats) == CteAnchor(cats) \cup CteRecursive(cats, CteAnchor(cats))

\* ORDER BY path
RECURSIVE OrderByPath(_)
OrderByPath(rows) ==
    IF rows = {} THEN <<>>
    ELSE LET first == CHOOSE r \in rows :
                          \A q \in rows : q = r \/ ~PathLess(q.path, r.path)
         IN  <<first>> \o OrderByPath(rows \ {first})

\* the loop over the result rows: categories_dict, root_categories and the
\* children lists (held by reference in both)
TreeStep(st, row) ==
    LET seen == [st EXCEPT
                   !.dict = @ \cup {row.id},
                   !.data = [i \in DOMAIN @ \cup {row.id} |->
                                IF i = row.id THEN row ELSE @[i]],
                   !.children = [i \in DOMAIN @ \cup {row.id} |->
                                    IF i = row.id THEN <<>> ELSE @[i]]]
    IN  IF row.parent_id = Null
        THEN [seen EXCEPT !.roots = Append(@, row.id)]
        ELSE IF row.parent_id \in seen.dict
        THEN [seen EXCEPT !.children[row.parent_id] = Append(@, row.id)]
        ELSE seen

RECURSIVE TreeLoop(_, _)
TreeLoop(st, rows) ==
    IF rows = <<>> THEN st ELSE TreeLoop(TreeStep(st, Head(rows)), Tail(rows))

RECURSIVE TreeNode(_, _)
TreeNode(st, id) ==
    [id |-> id, name |-> st.data[id].name, parent_id |-> st.data[id].parent_id,
     level |-> st.data[id].level, path |-> st.data[id].path,
     children |-> [i \in 1..Len(st.children[id]) |-> TreeNode(st, st.children[id][i])]]

BuildTree(rows) ==
    LET st == TreeLoop([dict |-> {}, data |-> <<>>, children |-> <<>>, roots |-> <<>>], rows)
    IN  [i \in 1..Len(st.roots) |-> TreeNode(st, st.roots[i])]

get_category_tree ==
    /\ response' = Resp("get_category_tree", <<>>, 200,
                        BuildTree(OrderByPath(category_tree(categories))))
    /\ UNCHANGED <<categories, cat_seq, nomenclature, nom_seq, sales, cache, in_flight>>

\* ------------------------------------------------ get_category_hierarchy
\* The view app.category_hierarchy: the active categories, one row each.
app_category_hierarchy(cats) ==
    {[id |-> c, name |-> cats[c].name, parent_id |-> cats[c].parent_id,
      level |-> cats[c].level, path |-> cats[c].path] :
        c \in {d \in DOMAIN cats : cats[d].is_active}}

\* a category name as text: one character that is no space
NameText(name) == <<ToString(name)>>

\* REPEAT(s, n): the text s n times, the empty text when n < 1
RECURSIVE REPEAT(_, _)
REPEAT(s, n) == IF n < 1 THEN <<>> ELSE s \o REPEAT(s, n - 1)

\* (mutant) the general branch repeats one space per level
tree_displayOneSpacePerLevel(level, name) ==
    IF level = 0 THEN NameText(name)
    ELSE IF level = 1 THEN <<" ", " ">> \o NameText(name)
    ELSE IF level = 2 THEN <<" ", " ", " ", " ">> \o NameText(name)
    ELSE IF level = 3 THEN <<" ", " ", " ", " ", " ", " ">> \o NameText(name)
    ELSE REPEAT(<<" ">>, level) \o NameText(name)

\* CASE WHEN level = 0 THEN name ... ELSE REPEAT('  ', level) || name END
tree_display(level, name) ==
    IF level = 0 THEN NameText(name)
    ELSE IF level = 1 THEN <<" ", " ">> \o NameText(name)
    ELSE IF level = 2 THEN <<" ", " ", " ", " ">> \o NameText(name)
    ELSE IF level = 3 THEN <<" ", " ", " ", " ", " ", " ">> \o NameText(name)
    ELSE REPEAT(<<" ", " ">>, level) \o NameText(name)

CategoryHierarchy(row) ==
    [id |-> row.id, name |-> row.name, level |-> row.level, path |-> row.path,
     full_path |-> tree_display(row.level, row.name)]

get_category_hierarchy ==
    /\ LET result == OrderByPath(app_category_hierarchy(categories))
       IN  response' = Resp("get_category_hierarchy", <<>>, 200,
                            [i \in 1..Len(result) |-> CategoryHierarchy(result[i])])
    /\ UNCHANGED <<categories, cat_seq, nomenclature, nom_seq, sales, cache, in_flight>>

\* ----------------------------------------------------------- pagination
\* PaginationParams: page >= 1 and 1 <= size <= 100, otherwise the request is
\* answered 422 before the handler runs.
ValidPagination(page, size) == page >= 1 /\ size >= 1 /\ size <= MaxPageSize

\* a query parameter the request leaves out (None) takes the field's default
PaginationParams(page, size) ==
    [page |-> IF page = None THEN DefaultPage ELSE page,
     size |-> IF size = None THEN DefaultPageSize ELSE size]

\* (mutant) the page number taken as counting from 0
OffsetZeroBasedPage(page, size) == page * size

offset(page, size) == (page - 1) * size

\* LIMIT :limit OFFSET :offset applied to an ordered result
LimitOffset(rows, limit, off) ==
    IF off >= Len(rows) THEN <<>>
    ELSE SubSeq(rows, off + 1, Min2(Len(rows), off + limit))

PageNumbers == 0..MaxPage
PageSizes == {0, 1, DefaultPageSize, MaxPageSize + 1}

\* the orders in which ORDER BY may deliver the rows S: every arrangement of
\* S in which the sort keys do not decrease (ties are in no particular order)
OrderBy(S, Key(_)) ==
    {s \in [1..Cardinality(S) -> S] :
        /\ \A i, j \in 1..Cardinality(S) : i # j => s[i] # s[j]
        /\ \A i \in 1..(Cardinality(S) - 1) : Key(s[i]) <= Key(s[i + 1])}

\* ------------------------------------------- get_category_children_count
category_hierarchy(cats) == CteAnchor(cats) \cup CteRecursive(cats, CteAnchor(cats))

\* the categories reached from c by following parent_id at least once
RECURSIVE AncestorsFrom(_, _, _)
AncestorsFrom(cats, c, seen) ==
    LET p == cats[c].parent_id
    IN  IF p = Null \/ p \notin DOMAIN cats \/ p \in seen THEN seen
        ELSE AncestorsFrom(cats, p, seen \cup {p})

Ancestors(cats, c) == AncestorsFrom(cats, c, {})

\* (mutant) COUNT over every row of the subtree below the root
ChildrenCountGroupsSubtree(cats) ==
    LET ch == category_hierarchy(cats)
    IN  {[id |-> parent.id,
          category_name |-> parent.name,
          children_count |-> Cardinality({child \in ch :
                                 child.depth >= 1 /\ parent.id \in Ancestors(cats, child.id)}),
          level |-> parent.level,
          full_path |-> parent.full_path] : parent \in {r \in ch : r.depth = 0}}

\* FROM category_hierarchy parent LEFT JOIN category_hierarchy child
\*   ON child.parent_id = parent.id AND child.depth = 1
\* WHERE parent.depth = 0 GROUP BY parent.id, ...
ChildrenCountGroups(cats) ==
    LET ch == category_hierarchy(cats)
    IN  {[id |-> parent.id,
          category_name |-> parent.name,
          children_count |-> Cardinality({child \in ch :
                                 child.parent_id = parent.id /\ child.depth = 1}),
          level |-> parent.level,
          full_path |-> parent.full_path] : parent \in {r \in ch : r.depth = 0}}

CategoryName(g) == g.category_name

CategoryChildrenCount(g) ==
    [category_name |-> g.category_name, children_count |-> g.children_count,
     level |-> g.level, full_path |-> g.full_path]

get_category_children_count(page, size) ==
    /\ LET pagination == PaginationParams(page, size)
       IN  IF ValidPagination(pagination.page, pagination.size)
           THEN \E ord \in OrderBy(ChildrenCountGroups(categories), CategoryName) :
                   LET rows == LimitOffset(ord, pagination.size,
                                           offset(pagination.page, pagination.size))
                   IN  response' = Resp("get_category_children_count",
                                        <<pagination.page, pagination.size>>, 200,
                                        [i \in 1..Len(rows) |->
                                            CategoryChildrenCount(rows[i])])
           ELSE response' = Resp("get_category_children_count", <<>>, 422, <<>>)
    /\ UNCHANGED <<categories, cat_seq, nomenclature, nom_seq, sales, cache, in_flight>>

\* ----------------------------------------------- get_client_order_summary
\* (mutant) the join does not look at o.status
JoinedOrdersCancelledToo(ords, c) ==
    {o \in DOMAIN ords : ords[o].client_id = c}

\* the rows of o that the LEFT JOIN pairs with client c:
\*   ON c.id = o.client_id AND o.status != 'cancelled'
JoinedOrders(ords, c) ==
    {o \in DOMAIN ords : ords[o].client_id = c /\ ords[o].status # "cancelled"}

\* the rows of oi that the second LEFT JOIN pairs with these orders
JoinedOrderItems(items, os) == {oi \in items : oi.order_id \in os}

\* WHERE c.is_active = TRUE GROUP BY c.id, c.name, with
\* COALESCE(SUM(oi.total_price), 0) and COUNT(DISTINCT o.id)
ClientOrderGroups(cls, ords, items) ==
    {[id |-> c,
      client_name |-> cls[c].name,
      total_amount |->
          LET joined == JoinedOrderItems(items, JoinedOrders(ords, c))
          IN  SumFn([oi \in joined |-> oi.total_price], joined),
      orders_count |-> Cardinality(JoinedOrders(ords, c))] :
        c \in {d \in DOMAIN cls : cls[d].is_active}}

\* ORDER BY total_amount DESC, c.name
TotalAmountDescThenName(g) == (0 - g.total_amount) * (MaxName + 1) + g.client_name

ClientOrderSummary(g) ==
    [client_name |-> g.client_name, total_amount |-> g.total_amount,
     orders_count |-> g.orders_count]

get_client_order_summary(page, size) ==
    /\ LET pagination == PaginationParams(page, size)
       IN  IF ValidPagination(pagination.page, pagination.size)
           THEN \E ord \in OrderBy(ClientOrderGroups(clients, orders, order_items),
                                   TotalAmountDescThenName) :
                   LET rows == LimitOffset(ord, pagination.size,
                                           offset(pagination.page, pagination.size))
                   IN  response' = Resp("get_client_order_summary",
                                        <<pagination.page, pagination.size>>, 200,
                                        [i \in 1..Len(rows) |->
                                            ClientOrderSummary(rows[i])])
           ELSE response' = Resp("get_client_order_summary", <<>>, 422, <<>>)
    /\ UNCHANGED <<categories, cat_seq, nomenclature, nom_seq, sales, cache, in_flight>>

\* --------------------------------------------------- get_category_stats
\* (mutant) the join does not look at n.is_active
JoinedNomenclatureInactiveToo(noms, c) ==
    {n \in DOMAIN noms : noms[n].category_id = c}

\* the rows of n that the LEFT JOIN pairs with category c:
\*   ON c.id = n.category_id AND n.is_active = TRUE
JoinedNomenclature(noms, c) ==
    {n \in DOMAIN noms : noms[n].category_id = c /\ noms[n].is_active}

\* SUM(term) over the joined rows, COALESCE(.., 0) when there is none
SumOver(noms, items, Term(_)) == SumFn([n \in items |-> Term(noms[n])], items)

Quantity(row) == row.quantity
Price(row) == row.price
Value(row) == row.price * row.quantity

\* MIN / MAX over the joined rows, COALESCE(.., 0) when there is none
MinOfPrice(noms, items) ==
    IF items = {} THEN 0
    ELSE noms[CHOOSE n \in items : \A o \in items : noms[n].price <= noms[o].price].price

MaxOfPrice(noms, items) ==
    IF items = {} THEN 0
    ELSE noms[CHOOSE n \in items : \A o \in items : noms[n].price >= noms[o].price].price

\* AVG as the exact quotient num / den, COALESCE(.., 0) as 0 / 1
AvgPrice(noms, items) ==
    IF items = {} THEN [num |-> 0, den |-> 1]
    ELSE [num |-> SumOver(noms, items, Price), den |-> Cardinality(items)]

\* (mutant) ORDER BY total_value ascending
TotalValueAsc(g) == g.total_value

\* (mutant) the join keeps categories that have a joined row only
CategoryStatsGroupsInnerJoin(cats, noms) ==
    {[category_id |-> c,
      category_name |-> cats[c].name,
      products_count |-> Cardinality(JoinedNomenclature(noms, c)),
      total_quantity |-> SumOver(noms, JoinedNomenclature(noms, c), Quantity),
      avg_price |-> AvgPrice(noms, JoinedNomenclature(noms, c)),
      min_price |-> MinOfPrice(noms, JoinedNomenclature(noms, c)),
      max_price |-> MaxOfPrice(noms, JoinedNomenclature(noms, c)),
      total_value |-> SumOver(noms, JoinedNomenclature(noms, c), Value)]
        : c \in {d \in DOMAIN cats : cats[d].is_active /\ JoinedNomenclature(noms, d) # {}}}

\* FROM app.categories c LEFT JOIN app.nomenclature n ... WHERE c.is_active
\* GROUP BY c.id, c.name
CategoryStatsGroups(cats, noms) ==
    {[category_id |-> c,
      category_name |-> cats[c].name,
      products_count |-> Cardinality(JoinedNomenclature(noms, c)),
      total_quantity |-> SumOver(noms, JoinedNomenclature(noms, c), Quantity),
      avg_price |-> AvgPrice(noms, JoinedNomenclature(noms, c)),
      min_price |-> MinOfPrice(noms, JoinedNomenclature(noms, c)),
      max_price |-> MaxOfPrice(noms, JoinedNomenclature(noms, c)),
      total_value |-> SumOver(noms, JoinedNomenclature(noms, c), Value)]
        : c \in {d \in DOMAIN cats : cats[d].is_active}}

\* ORDER BY total_value DESC NULLS LAST (no total_value is NULL)
TotalValueDesc(g) == 0 - g.total_value

\* GET /categories/stats/
get_category_stats ==
    /\ \E ord \in OrderBy(CategoryStatsGroups(categories, nomenclature), TotalValueDesc) :
          response' = Resp("get_category_stats", <<>>, 200, ord)
    /\ UNCHANGED <<categories, cat_seq, nomenclature, nom_seq, sales, cache, in_flight>>

\* GET /analytics/category-stats: the same query without the category_id column
AnalyticsCategoryStats(g) ==
    [category_name |-> g.category_name, products_count |-> g.products_count,
     total_quantity |-> g.total_quantity, avg_price |-> g.avg_price,
     min_price |-> g.min_price, max_price |-> g.max_price,
     total_value |-> g.total_value]

analytics_get_category_stats ==
    /\ \E ord \in OrderBy(CategoryStatsGroups(categories, nomenclature), TotalValueDesc) :
          response' = Resp("analytics_get_category_stats", <<>>, 200,
                           [i \in 1..Len(ord) |-> AnalyticsCategoryStats(ord[i])])
    /\ UNCHANGED <<categories, cat_seq, nomenclature, nom_seq, sales, cache, in_flight>>

\* ------------------------------------------------------------- the cache
\* Python strings are sequences of characters; a Python value is its type
\* with the text str() gives for it and the text json.dumps() gives for it.
PyNone == [type |-> "NoneType", str |-> <<"N", "o", "n", "e">>,
           json |-> <<"n", "u", "l", "l">>]
PyTrue == [type |-> "bool", str |-> <<"T", "r", "u", "e">>,
           json |-> <<"t", "r", "u", "e">>]
PyInt1 == [type |-> "int", str |-> <<"1">>, json |-> <<"1">>]
PyList1 == [type |-> "list", str |-> <<"[", "1", "]">>, json |-> <<"[", "1", "]">>]
PyListA == [type |-> "list", str |-> <<"[", "'", "a", "'", "]">>,
            json |-> <<"[", "\"", "a", "\"", "]">>]

\* the str holding the characters text
PyStr(text) == [type |-> "str", str |-> text, json |-> <<"\"">> \o text \o <<"\"">>]

\* the values handed to and returned by the wrapped functions.  Every str()
\* text of a value that is a JSON document is the json text of a value here.
PyValues == {PyNone, PyTrue, PyInt1, PyList1, PyListA, PyStr(<<"1">>), PyStr(<<"a">>),
             PyStr(<<"n", "u", "l", "l">>)}

\* the outcome of a call: a returned value, or an exception on its way up
Return(v) == [raised |-> FALSE, value |-> v]
Raise(e) == [raised |-> TRUE, value |-> e]

\* redis-py against the server: every command raises a RedisError
\* (ConnectionError, TimeoutError) when the server does not answer
redis_ping(up) == IF up THEN Return(TRUE) ELSE Raise("RedisError")

redis_get(up, store, key) ==
    IF ~up THEN Raise("RedisError")
    ELSE IF key \in DOMAIN store THEN Return([found |-> TRUE, text |-> store[key].value])
    ELSE Return([found |-> FALSE, text |-> <<>>])

\* json.loads(value): the value whose JSON document the text is
json_loads(text) ==
    IF \E v \in PyValues : v.json = text
    THEN Return(CHOOSE v \in PyValues : v.json = text)
    ELSE Raise("JSONDecodeError")

_is_connected(client, up) ==
    IF client = "None" THEN FALSE
    ELSE IF redis_ping(up).raised THEN FALSE
    ELSE TRUE

\* CacheManager.get: the value returned, and the store afterwards
get(client, up, store, key) ==
    IF ~_is_connected(client, up) THEN [result |-> Return(PyNone), store |-> store]
    ELSE LET value == redis_get(up, store, key)
         IN  IF value.raised THEN [result |-> Return(PyNone), store |-> store]
             ELSE IF ~value.value.found THEN [result |-> Return(PyNone), store |-> store]
             ELSE IF json_loads(value.value.text).raised
                  THEN [result |-> Return(PyStr(value.value.text)), store |-> store]
                  ELSE [result |-> Return(json_loads(value.value.text).value),
                        store |-> store]

\* json.dumps for a dict or a list, str() for anything else
Serialized(value) ==
    IF value.type \in {"dict", "list"} THEN value.json ELSE value.str

\* SETEX key ttl value
redis_setex(up, store, key, ttl, text) ==
    IF ~up THEN [result |-> Raise("RedisError"), store |-> store]
    ELSE [result |-> Return(TRUE),
          store |-> [k \in DOMAIN store \cup {key} |->
                        IF k = key THEN [value |-> text, ttl |-> ttl] ELSE store[k]]]

set(client, up, store, key, value, ttl) ==
    IF ~_is_connected(client, up) THEN [result |-> Return(FALSE), store |-> store]
    ELSE LET r == redis_setex(up, store, key,
                              IF ttl = None THEN CACHE_TTL ELSE ttl, Serialized(value))
         IN  IF r.result.raised THEN [result |-> Return(FALSE), store |-> store]
             ELSE [result |-> Return(r.result.value), store |-> r.store]

\* DEL key ... : the number of keys removed
redis_delete(up, store, keys) ==
    IF ~up THEN [result |-> Raise("RedisError"), store |-> store]
    ELSE [result |-> Return(Cardinality(keys \cap DOMAIN store)),
          store |-> [k \in DOMAIN store \ keys |-> store[k]]]

delete(client, up, store, key) ==
    IF ~_is_connected(client, up) THEN [result |-> Return(FALSE), store |-> store]
    ELSE LET r == redis_delete(up, store, {key})
         IN  IF r.result.raised THEN [result |-> Return(FALSE), store |-> store]
             ELSE [result |-> Return(r.result.value # 0), store |-> r.store]

\* a glob pattern that is a literal text followed by "*" matches the keys that
\* begin with the text; without the "*" it matches the key equal to it
GlobMatch(pattern, key) ==
    IF Len(pattern) > 0 /\ pattern[Len(pattern)] = "*"
    THEN /\ Len(key) >= Len(pattern) - 1
         /\ SubSeq(key, 1, Len(pattern) - 1) = SubSeq(pattern, 1, Len(pattern) - 1)
    ELSE key = pattern

\* KEYS pattern
redis_keys(up, store, pattern) ==
    IF ~up THEN Raise("RedisError")
    ELSE Return({k \in DOMAIN store : GlobMatch(pattern, k)})

delete_pattern(client, up, store, pattern) ==
    IF ~_is_connected(client, up) THEN [result |-> Return(0), store |-> store]
    ELSE LET keys == redis_keys(up, store, pattern)
         IN  IF keys.raised THEN [result |-> Return(0), store |-> store]
             ELSE IF keys.value = {} THEN [result |-> Return(0), store |-> store]
             ELSE LET r == redis_delete(up, store, keys.value)
                  IN  IF r.result.raised THEN [result |-> Return(0), store |-> store]
                      ELSE [result |-> Return(r.result.value), store |-> r.store]

\* ":".join(parts)
RECURSIVE Join(_)
Join(parts) ==
    IF Len(parts) = 0 THEN <<>>
    ELSE IF Len(parts) = 1 THEN parts[1]
    ELSE parts[1] \o <<":">> \o Join(Tail(parts))

cache_key(prefix, args) == Join(<<prefix>> \o [i \in 1..Len(args) |-> args[i].str])

\* the arguments of a call: the positional ones and the keyword ones, in the
\* order they are written in
Arguments(args, kwargs) == [args |-> args, kwargs |-> kwargs]
Positional(value) == Arguments(<<value>>, <<>>)
Keyword(name, value) == Arguments(<<>>, <<[name |-> name, value |-> value]>>)

\* cache_key(prefix, func.__name__, *args, *kwargs.values())
WrapperKey(prefix, func, arg) ==
    cache_key(prefix, <<PyStr(func.name)>> \o arg.args
                      \o [i \in 1..Len(arg.kwargs) |-> arg.kwargs[i].value])

\* the functions that are wrapped, both def func(x=None, y=None): f returns
\* x and g returns None
Funcs == {[name |-> <<"f">>, returns |-> "argument"],
          [name |-> <<"g">>, returns |-> "None"]}

\* the value the call binds to the parameter x
BoundToX(arg) ==
    IF Len(arg.args) >= 1 THEN arg.args[1]
    ELSE IF \E i \in 1..Len(arg.kwargs) : arg.kwargs[i].name = "x"
    THEN arg.kwargs[CHOOSE i \in 1..Len(arg.kwargs) : arg.kwargs[i].name = "x"].value
    ELSE PyNone

\* func(*args, **kwargs)
Call(func, arg) == IF func.returns = "argument" THEN BoundToX(arg) ELSE PyNone

\* what a call of the wrapper leaves in the response: the outcome, the number
\* of times func ran and the key that was looked up
WrapperBody(result, calls, key) ==
    [raised |-> result.raised, value |-> result.value, calls |-> calls, key |-> key]

\* the calls on the global cache_manager
cache_manager_get(key) ==
    LET r == get(redis_client, redis_up, redis_store, key)
    IN  /\ response' = Resp("get", <<key>>, 0, r.result)
        /\ redis_store' = r.store
        /\ UNCHANGED <<categories, cat_seq, nomenclature, nom_seq, sales,
                       redis_client, redis_up, in_flight>>

cache_manager_set(key, value, ttl) ==
    LET r == set(redis_client, redis_up, redis_store, key, value, ttl)
    IN  /\ response' = Resp("set", <<key, value, ttl>>, 0, r.result)
        /\ redis_store' = r.store
        /\ UNCHANGED <<categories, cat_seq, nomenclature, nom_seq, sales,
                       redis_client, redis_up, in_flight>>

cache_manager_delete(key) ==
    LET r == delete(redis_client, redis_up, redis_store, key)
    IN  /\ response' = Resp("delete", <<key>>, 0, r.result)
        /\ redis_store' = r.store
        /\ UNCHANGED <<categories, cat_seq, nomenclature, nom_seq, sales,
                       redis_client, redis_up, in_flight>>

invalidate_cache(pattern) ==
    LET r == delete_pattern(redis_client, redis_up, redis_store, pattern)
    IN  /\ response' = Resp("delete_pattern", <<pattern>>, 0, r.result)
        /\ redis_store' = r.store
        /\ UNCHANGED <<categories, cat_seq, nomenclature, nom_seq, sales,
                       redis_client, redis_up, in_flight>>

\* (mutant) whatever the cache answers is returned, None included
wrapperWithoutNoneTest(prefix, ttl, func, arg) ==
    LET key == WrapperKey(prefix, func, arg)
        cached_result == get(redis_client, redis_up, redis_store, key)
    IN  /\ response' = Resp("wrapper", <<prefix, ttl, func, arg>>, 0,
                            WrapperBody(cached_result.result, 0, key))
        /\ redis_store' = cached_result.store
        /\ UNCHANGED <<categories, cat_seq, nomenclature, nom_seq, sales,
                       redis_client, redis_up, in_flight>>

\* the function cached(prefix, ttl) puts in the place of func
wrapper(prefix, ttl, func, arg) ==
    LET key == WrapperKey(prefix, func, arg)
        cached_result == get(redis_client, redis_up, redis_store, key)
    IN  /\ IF cached_result.result.value # PyNone
           THEN /\ response' = Resp("wrapper", <<prefix, ttl, func, arg>>, 0,
                                    WrapperBody(cached_result.result, 0, key))
                /\ redis_store' = cached_result.store
           ELSE LET result == Call(func, arg)
                    saved == set(redis_client, redis_up, cached_result.store,
                                 key, result, ttl)
                IN  /\ response' = Resp("wrapper", <<prefix, ttl, func, arg>>, 0,
                                        WrapperBody(Return(result), 1, key))
                    /\ redis_store' = saved.store
        /\ UNCHANGED <<categories, cat_seq, nomenclature, nom_seq, sales,
                       redis_client, redis_up, in_flight>>

\* the server drops a key whose ttl has run out
redis_expire(key) ==
    /\ redis_up
    /\ key \in DOMAIN redis_store
    /\ redis_store' = [k \in DOMAIN redis_store \ {key} |-> redis_store[k]]
    /\ response' = Resp("expire", <<key>>, 0, <<>>)
    /\ UNCHANGED <<categories, cat_seq, nomenclature, nom_seq, sales,
                   redis_client, redis_up, in_flight>>

\* no client and no order yet
NoSales ==
    /\ clients = <<>>
    /\ client_seq = 1
    /\ orders = <<>>
    /\ order_seq = 1
    /\ order_items = {}

\* CacheManager() when Redis does not answer the ping of _connect
NoCache ==
    /\ redis_client = "None"
    /\ redis_up = FALSE
    /\ redis_store = <<>>

Init ==
    /\ categories = <<>>
    /\ cat_seq = 1
    /\ nomenclature = <<>>
    /\ nom_seq = 1
    /\ NoSales
    /\ NoCache
    /\ response = Resp("none", <<>>, 0, <<>>)
    /\ NoRequests

\* -------------------------------------------------------- specifications
CategoryWrites ==
    \/ \E n \in NameSet, p \in {None, 0} \cup CatIds : create_category(n, p)
    \/ \E id \in CatIds, r \in CategoryUpdates :
          update_category(id, r.name, r.parent_id, r.is_active)
    \/ \E id \in CatIds : delete_category(id)

\* the category handlers and the tree report
Next ==
    \/ CategoryWrites
    \/ get_category_tree

Spec == Init /\ [][Next]_vars

\* the category handlers and the children-count report
NextChildren ==
    \/ CategoryWrites
    \/ \E page \in PageNumbers, size \in PageSizes : get_category_children_count(page, size)

SpecChildren == Init /\ [][NextChildren]_vars

\* The statistics reports read a snapshot of the two tables and write nothing.
\* They are applied to every pair of tables of the bounded size that the
\* handlers can leave behind: categories created one after the other, each a
\* root or under an earlier one, and then activated or deactivated at will;
\* items (price > 0, quantity >= 0) in any of these categories, active or not.
RECURSIVE SeededCategories(_, _, _)
SeededCategories(k, nm, par) ==
    IF k = 0 THEN <<>>
    ELSE LET before == SeededCategories(k - 1, nm, par)
         IN  [c \in 1..k |->
                 IF c < k THEN before[c]
                 ELSE NewCategoryRow(before, k, nm[k],
                                     IF par[k] = Null THEN None ELSE par[k])]

InitStats ==
    /\ \E k \in 0..MaxStatCat :
          /\ \E nm \in [1..k -> NameSet], par \in [1..k -> 0..MaxStatCat],
                act \in [1..k -> BOOLEAN] :
                /\ \A c \in 1..k : par[c] < c
                /\ categories = [c \in 1..k |->
                      [SeededCategories(k, nm, par)[c] EXCEPT !.is_active = act[c]]]
          /\ cat_seq = k + 1
          /\ \E m \in 0..MaxNom :
                /\ \E rows \in [1..m -> [sku : {Null}, quantity : 0..MaxQty,
                                         price : 1..MaxPrice, category_id : 1..k,
                                         is_active : BOOLEAN]] :
                      nomenclature = rows
                /\ nom_seq = m + 1
    /\ NoSales
    /\ NoCache
    /\ response = Resp("none", <<>>, 0, <<>>)
    /\ NoRequests

NextStats ==
    \/ get_category_stats
    \/ analytics_get_category_stats

SpecStats == InitStats /\ [][NextStats]_vars

\* The paginated children-count report, asked for every page and size, given
\* or left out, of every category table of up to MaxCat rows that the handlers
\* can leave behind.
InitPages ==
    /\ \E k \in 0..MaxCat :
          /\ \E nm \in [1..k -> NameSet], par \in [1..k -> 0..MaxCat],
                act \in [1..k -> BOOLEAN] :
                /\ \A c \in 1..k : par[c] < c
                /\ categories = [c \in 1..k |->
                      [SeededCategories(k, nm, par)[c] EXCEPT !.is_active = act[c]]]
          /\ cat_seq = k + 1
    /\ nomenclature = <<>>
    /\ nom_seq = 1
    /\ NoSales
    /\ NoCache
    /\ response = Resp("none", <<>>, 0, <<>>)
    /\ NoRequests

NextPages ==
    \E page \in PageNumbers \cup {None}, size \in PageSizes \cup {None} :
        get_category_children_count(page, size)

SpecPages == InitPages /\ [][NextPages]_vars

\* The cache absent: CacheManager() either found no Redis (redis_client is
\* None) or connected to a Redis that answers no more, whatever keys it holds.
Prefixes == {<<"p">>, <<"q">>}
TTLs == {None, ShortTTL}
CacheKeys ==
    {WrapperKey(prefix, func, Positional(value)) :
        prefix \in Prefixes, func \in Funcs, value \in PyValues}
CachePatterns == {prefix \o <<":", "*">> : prefix \in Prefixes}

InitCacheAbsent ==
    /\ categories = <<>>
    /\ cat_seq = 1
    /\ nomenclature = <<>>
    /\ nom_seq = 1
    /\ NoSales
    /\ redis_client \in {"None", "client"}
    /\ redis_up = FALSE
    /\ \/ redis_store = <<>>
       \/ /\ redis_client = "client"
          /\ \E key \in CacheKeys :
                redis_store = set("client", TRUE, <<>>, key, PyInt1, None).store
    /\ response = Resp("none", <<>>, 0, <<>>)
    /\ NoRequests

CacheCalls ==
    \/ \E key \in CacheKeys : cache_manager_get(key)
    \/ \E key \in CacheKeys, value \in PyValues, ttl \in TTLs : cache_manager_set(key, value, ttl)
    \/ \E key \in CacheKeys : cache_manager_delete(key)
    \/ \E pattern \in CachePatterns : invalidate_cache(pattern)
    \/ \E prefix \in Prefixes, ttl \in TTLs, func \in Funcs, value \in PyValues :
          wrapper(prefix, ttl, func, Positional(value))

NextCacheAbsent == CacheCalls

SpecCacheAbsent == InitCacheAbsent /\ [][NextCacheAbsent]_vars

\* The hierarchy listing of a chain of up to MaxDepth + 1 categories, each
\* created under the one before it, whatever their names.
InitDisplay ==
    /\ \E k \in 0..(MaxDepth + 1) :
          /\ \E nm \in [1..k -> NameSet] :
                categories = SeededCategories(k, nm, [c \in 1..k |-> c - 1])
          /\ cat_seq = k + 1
    /\ nomenclature = <<>>
    /\ nom_seq = 1
    /\ NoSales
    /\ NoCache
    /\ response = Resp("none", <<>>, 0, <<>>)
    /\ NoRequests

NextDisplay == get_category_hierarchy

SpecDisplay == InitDisplay /\ [][NextDisplay]_vars

\* the category handlers and the hierarchy listing
NextHierarchy ==
    \/ CategoryWrites
    \/ get_category_hierarchy

SpecHierarchy == Init /\ [][NextHierarchy]_vars

\* The client order summary reads a snapshot of clients, orders and order
\* items and writes nothing.  It is applied to every such snapshot of the
\* bounded size that the handlers can leave behind: clients of any name,
\* active or not; orders of any client in any status; for every order at least
\* one item, at most one per nomenclature row, each of price 1.
InitSummary ==
    /\ categories = <<NewCategoryRow(<<>>, 1, 1, None)>>
    /\ cat_seq = 2
    /\ nomenclature = [n \in 1..MaxNom |-> NewNomenclatureRow(None, 0, 1, 1)]
    /\ nom_seq = MaxNom + 1
    /\ \E k \in 0..MaxSummaryClient :
          /\ \E nm \in [1..k -> NameSet], act \in [1..k -> BOOLEAN] :
                clients = [c \in 1..k |->
                              [NewClientRow(nm[c], None) EXCEPT !.is_active = act[c]]]
          /\ client_seq = k + 1
          /\ \E m \in 0..MaxOrder :
                /\ \E rows \in [1..m -> [client_id : 1..k, status : OrderStatuses]] :
                      orders = rows
                /\ order_seq = m + 1
                /\ \E q \in [1..m -> [1..MaxNom -> 0..MaxQty]] :
                      /\ \A o \in 1..m : \E n \in 1..MaxNom : q[o][n] > 0
                      /\ order_items =
                            {oi \in {[order_id |-> o, nomenclature_id |-> n,
                                      quantity |-> q[o][n], price |-> 1,
                                      total_price |-> q[o][n]] :
                                         o \in 1..m, n \in 1..MaxNom} : oi.quantity > 0}
    /\ NoCache
    /\ response = Resp("none", <<>>, 0, <<>>)
    /\ NoRequests

NextSummary ==
    \E page \in {None, 1, MaxPage}, size \in {None, 1} :
        get_client_order_summary(page, size)

SpecSummary == InitSummary /\ [][NextSummary]_vars

\* The cache present: CacheManager() found a Redis that answers every call.
\* The function f is wrapped under one prefix and called with arguments whose
\* texts meet in the key; values of every kind are set under one more key.
CachedCalls ==
    {Positional(PyTrue), Positional(PyInt1), Positional(PyStr(<<"1">>)),
     Positional(PyStr(<<"n", "u", "l", "l">>)),
     Keyword("x", PyInt1), Keyword("y", PyInt1),
     Positional(PyStr(<<"a", ":", "b">>)),
     Arguments(<<PyStr(<<"a">>), PyStr(<<"b">>)>>, <<>>)}
CachedFunc == CHOOSE func \in Funcs : func.returns = "argument"
PresentKeys ==
    {<<"k">>} \cup {WrapperKey(<<"p">>, CachedFunc, arg) : arg \in CachedCalls}

InitCachePresent ==
    /\ categories = <<>>
    /\ cat_seq = 1
    /\ nomenclature = <<>>
    /\ nom_seq = 1
    /\ NoSales
    /\ redis_client = "client"
    /\ redis_up = TRUE
    /\ redis_store = <<>>
    /\ response = Resp("none", <<>>, 0, <<>>)
    /\ NoRequests

NextCachePresent ==
    \/ \E ttl \in TTLs, arg \in CachedCalls : wrapper(<<"p">>, ttl, CachedFunc, arg)
    \/ \E value \in PyValues : cache_manager_set(<<"k">>, value, None)
    \/ \E key \in PresentKeys : cache_manager_get(key)
    \/ \E key \in PresentKeys : cache_manager_delete(key)
    \/ invalidate_cache(<<"p", ":", "*">>)
    \/ \E key \in PresentKeys : redis_expire(key)

SpecCachePresent == InitCachePresent /\ [][NextCachePresent]_vars

\* The catalog: the category and nomenclature handlers together, on at most
\* MaxStatCat categories.  Quantity and price play no part in what these
\* handlers check, so the requests carry quantity 0, price 1 and leave both
\* alone in updates.
CatalogNomenclatureUpdates ==
    {r \in NomenclatureUpdates : r.quantity = None /\ r.price = None}

CatalogWrites ==
    \/ \E n \in NameSet, p \in {None, 0} \cup CatIds :
          cat_seq <= MaxStatCat /\ create_category(n, p)
    \/ \E id \in CatIds, r \in CategoryUpdates :
          update_category(id, r.name, r.parent_id, r.is_active)
    \/ \E id \in CatIds : delete_category(id)
    \/ \E s \in {None, 1}, c \in 0..MaxCat : create_nomenclature(s, 0, 1, c)
    \/ \E id \in 1..MaxNom, r \in CatalogNomenclatureUpdates : update_nomenclature(id, r)
    \/ \E id \in 1..MaxNom : delete_nomenclature(id)

NextCatalog == CatalogWrites

SpecCatalog == Init /\ [][NextCatalog]_vars

\* The sales: the client, nomenclature and order handlers together, on the
\* items of one category.  Emails, article numbers and the category of an item
\* play no part in what the order handlers check: requests carry none and
\* leave them alone.  An item is created with the full stock MaxQty; orders,
\* deletions of orders and deactivations change what can be ordered.
OrderItemRequests ==
    {[nomenclature_id |-> n, quantity |-> q, price |-> p, total_price |-> q * p] :
        n \in 1..MaxNom, q \in 1..MaxQty, p \in 1..MaxPrice}

OrderRequests ==
    [client_id : 1..MaxClient, status : {"pending"},
     items : UNION {[1..l -> OrderItemRequests] : l \in 1..MaxItems}]

SalesNomenclatureUpdates ==
    {r \in NomenclatureUpdates :
        r.sku = None /\ r.category_id = None /\ r.quantity = None /\ r.price = None}

InitSales ==
    /\ categories = <<NewCategoryRow(<<>>, 1, 1, None)>>
    /\ cat_seq = 2
    /\ nomenclature = <<>>
    /\ nom_seq = 1
    /\ NoSales
    /\ NoCache
    /\ response = Resp("none", <<>>, 0, <<>>)
    /\ NoRequests

NextSales ==
    \/ \E order \in OrderRequests : create_order(order)
    \/ \E id \in 1..MaxOrder, st \in OrderStatuses \cup {"None"} : update_order(id, st)
    \/ \E id \in 1..MaxOrder : delete_order(id)
    \/ create_client(1, None)
    \/ \E id \in 1..MaxClient, a \in OptBool : update_client(id, None, a)
    \/ \E id \in 1..MaxClient : delete_client(id)
    \/ \E pr \in 1..MaxPrice : create_nomenclature(None, MaxQty, pr, 1)
    \/ \E id \in 1..MaxNom, r \in SalesNomenclatureUpdates : update_nomenclature(id, r)
    \/ \E id \in 1..MaxNom : delete_nomenclature(id)

SpecSales == InitSales /\ [][NextSales]_vars

\* Orders placed through several processes: one client, MaxNom articles of
\* price 1 with any stock.
InitOrderRace ==
    /\ categories = <<NewCategoryRow(<<>>, 1, 1, None)>>
    /\ cat_seq = 2
    /\ \E q \in [1..MaxNom -> 0..MaxQty] :
           nomenclature = [n \in 1..MaxNom |-> NewNomenclatureRow(None, q[n], 1, 1)]
    /\ nom_seq = MaxNom + 1
    /\ clients = <<NewClientRow(1, None)>>
    /\ client_seq = 2
    /\ orders = <<>>
    /\ order_seq = 1
    /\ order_items = {}
    /\ NoCache
    /\ response = Resp("none", <<>>, 0, <<>>)
    /\ NoRequests

NextOrderRace ==
    \/ \E w \in Workers, order \in OrderRequests : create_order_checks(w, order)
    \/ \E w \in Workers : create_order_writes(w)

SpecOrderRace == InitOrderRace /\ [][NextOrderRace]_vars

\* Categories written through several processes: a delete_category that has
\* counted the children and the articles meets the writes of other requests
\* before its DELETE.
NextCategoryRace ==
    \/ \E p \in {None} \cup CatIds : create_category(1, p)
    \/ \E id \in CatIds, p \in CatIds : update_category(id, None, p, "None")
    \/ create_nomenclature(None, 0, 1, 1)
    \/ \E w \in Workers, id \in CatIds : delete_category_checks(w, id)
    \/ \E w \in Workers : delete_category_deletes(w)

SpecCategoryRace == Init /\ [][NextCategoryRace]_vars

\* ================================================================ claims
\* ids of the nodes of a forest, in pre-order
RECURSIVE NodeIds(_)
NodeIds(node) ==
    <<node.id>> \o Concat([i \in 1..Len(node.children) |-> NodeIds(node.children[i])])

ForestIds(forest) == Concat([i \in 1..Len(forest) |-> NodeIds(forest[i])])

Occurrences(forest, id) ==
    Cardinality({i \in 1..Len(ForestIds(forest)) : ForestIds(forest)[i] = id})

RootIds(forest) == {forest[i].id : i \in 1..Len(forest)}

TreeAnswered == response.op = "get_category_tree" /\ response.status = 200

\* C1: every active category row appears exactly once in the forest returned
\* by the tree endpoint.
C1_EveryActiveRowOnce ==
    TreeAnswered =>
        \A c \in DOMAIN categories :
            categories[c].is_active => Occurrences(response.body, c) = 1

\* C2: an active row whose parent is not among the active rows is a root of the
\* returned forest.
C2_OrphanIsRoot ==
    TreeAnswered =>
        \A c \in DOMAIN categories :
            (/\ categories[c].is_active
             /\ categories[c].parent_id # Null
             /\ ~ActiveCategory(categories, categories[c].parent_id))
            => c \in RootIds(response.body)

\* C3: when two active rows are each other's parent (or a row is its own
\* parent) the tree endpoint answers and each of them appears exactly once in
\* the returned forest.
C3_CycleRowsOnce ==
    TreeAnswered =>
        \A a, b \in DOMAIN categories :
            (/\ categories[a].is_active /\ categories[b].is_active
             /\ categories[a].parent_id = b /\ categories[b].parent_id = a)
            => Occurrences(response.body, a) = 1 /\ Occurrences(response.body, b) = 1

\* node reports depth, and every node below it the level of its parent + 1
RECURSIVE DepthConsistent(_, _)
DepthConsistent(node, depth) ==
    /\ node.level = depth
    /\ \A i \in 1..Len(node.children) : DepthConsistent(node.children[i], node.level + 1)

\* C4: the level reported for a node of the tree is 0 for a root and the
\* reported level of its parent node + 1 for any other node.
C4_ReportedDepthRecomputed ==
    TreeAnswered =>
        \A i \in 1..Len(response.body) : DepthConsistent(response.body[i], 0)

\* C9: the parent-pointer relation is acyclic: no category is reachable from
\* itself by following parent_id.
C9_ParentRelationAcyclic ==
    \A c \in DOMAIN categories : c \notin Ancestors(categories, c)

\* C10: a category without parent has level 0, a category with a parent has
\* the level of its parent + 1.
C10_LevelIsParentLevelPlusOne ==
    \A c \in DOMAIN categories :
        IF categories[c].parent_id = Null
        THEN categories[c].level = 0
        ELSE categories[c].level = categories[categories[c].parent_id].level + 1

ChildrenAnswered ==
    response.op = "get_category_children_count" /\ response.status = 200

ActiveRoots(cats) ==
    {c \in DOMAIN cats : cats[c].parent_id = Null /\ cats[c].is_active}

DirectActiveChildren(cats, r) ==
    {c \in DOMAIN cats : cats[c].parent_id = r /\ cats[c].is_active}

\* C5: the children-count report lists active root categories only, each at
\* most once and with the number of its direct active children; the page
\* requested holds all the roots that LIMIT / OFFSET leave, so that a request
\* whose page covers the roots lists every root, childless ones with count 0.
C5_ImmediateChildrenOnly ==
    ChildrenAnswered =>
        LET body == response.body
            page == response.args[1]
            size == response.args[2]
            roots == ActiveRoots(categories)
        IN  /\ Len(body) = Min2(size, Max2(0, Cardinality(roots) - (page - 1) * size))
            /\ \E f \in [1..Len(body) -> roots] :
                  /\ \A i, j \in 1..Len(body) : i # j => f[i] # f[j]
                  /\ \A i \in 1..Len(body) :
                        /\ body[i].category_name = categories[f[i]].name
                        /\ body[i].children_count =
                              Cardinality(DirectActiveChildren(categories, f[i]))

\* a root whose only child has an active child of its own is reported with 1
C5_Witness ==
    /\ ChildrenAnswered
    /\ Len(response.body) = 1
    /\ response.body[1].children_count = 1
    /\ \E r \in ActiveRoots(categories) :
          \E c \in DirectActiveChildren(categories, r) :
              DirectActiveChildren(categories, c) # {}

StatsAnswered ==
    /\ response.op \in {"get_category_stats", "analytics_get_category_stats"}
    /\ response.status = 200

ActiveCategories == {c \in DOMAIN categories : categories[c].is_active}

ActiveItemsOf(c) ==
    {n \in DOMAIN nomenclature :
        nomenclature[n].is_active /\ nomenclature[n].category_id = c}

\* the ways to read the rows of a statistics response as the aggregates of
\* distinct active categories (by category_id where the row carries it, by
\* name otherwise)
StatsReadings ==
    {f \in [1..Len(response.body) -> ActiveCategories] :
        /\ \A i, j \in 1..Len(response.body) : i # j => f[i] # f[j]
        /\ \A i \in 1..Len(response.body) :
              /\ response.body[i].category_name = categories[f[i]].name
              /\ response.op = "get_category_stats"
                    => response.body[i].category_id = f[i]}

ZeroAggregate(row) ==
    /\ row.products_count = 0
    /\ row.total_quantity = 0
    /\ row.avg_price.num = 0
    /\ row.min_price = 0
    /\ row.max_price = 0
    /\ row.total_value = 0

\* C6: the statistics hold exactly one aggregate per active category, and the
\* aggregate of a category without active item is all zero.
C6_OneAggregatePerActiveCategory ==
    StatsAnswered =>
        /\ Len(response.body) = Cardinality(ActiveCategories)
        /\ \E f \in StatsReadings :
              \A i \in 1..Len(response.body) :
                  ActiveItemsOf(f[i]) = {} => ZeroAggregate(response.body[i])

\* two rows, the one of an active category whose only items are inactive (all
\* zero) and the one of a category with an active item
C6_Witness ==
    /\ response.op = "get_category_stats" /\ response.status = 200
    /\ Len(response.body) = 2
    /\ \E i, j \in 1..2 :
          /\ response.body[i].products_count = 0
          /\ \E n \in DOMAIN nomenclature :
                nomenclature[n].category_id = response.body[i].category_id
          /\ response.body[j].products_count = 1

\* C7: the statistics are sorted by total_value descending, so no row of
\* total value 0 comes before a row of positive total value.
C7_SortedByTotalValueDesc ==
    StatsAnswered =>
        /\ \A i \in 1..(Len(response.body) - 1) :
              response.body[i].total_value >= response.body[i + 1].total_value
        /\ \A i, j \in 1..Len(response.body) :
              (response.body[i].total_value = 0 /\ response.body[j].total_value > 0)
              => j < i

\* a category of positive total value listed before one of total value 0,
\* although the latter has the smaller id
C7_Witness ==
    /\ response.op = "get_category_stats" /\ response.status = 200
    /\ Len(response.body) = 2
    /\ response.body[1].total_value > 0
    /\ response.body[2].total_value = 0
    /\ response.body[2].category_id < response.body[1].category_id

\* the column of the active items of category c, one entry per id handed out
ItemColumn(c, Term(_)) ==
    [n \in 1..(nom_seq - 1) |->
        IF n \in ActiveItemsOf(c) THEN Term(nomenclature[n]) ELSE 0]

\* C8: the aggregate of an active category is the reduction over exactly its
\* active items: their number, the sum of their quantities, the least and the
\* greatest of their prices and the sum of price x quantity.
C8_AggregateIsReductionOverOwnActiveItems ==
    StatsAnswered =>
        \E f \in StatsReadings :
            \A i \in 1..Len(response.body) :
                LET row == response.body[i]
                    items == ActiveItemsOf(f[i])
                IN  /\ row.products_count = Cardinality(items)
                    /\ row.total_quantity = SeqSum(ItemColumn(f[i], Quantity))
                    /\ row.total_value = SeqSum(ItemColumn(f[i], Value))
                    /\ items # {} =>
                          /\ \E n \in items : nomenclature[n].price = row.min_price
                          /\ \E n \in items : nomenclature[n].price = row.max_price
                          /\ \A n \in items :
                                /\ row.min_price <= nomenclature[n].price
                                /\ nomenclature[n].price <= row.max_price

\* a category with two active items of different price
C8_Witness ==
    /\ response.op = "analytics_get_category_stats" /\ response.status = 200
    /\ \E i \in 1..Len(response.body) :
          /\ response.body[i].products_count = 2
          /\ response.body[i].min_price < response.body[i].max_price
          /\ response.body[i].total_quantity = 3
          /\ response.body[i].total_value = 4

\* some category (active or not) has id as parent, or some item references id
CategoryReferenced(id) ==
    \/ \E c \in DOMAIN categories : categories[c].parent_id = id
    \/ \E n \in DOMAIN nomenclature : nomenclature[n].category_id = id

\* C11: delete_category answers 400 and deletes nothing when a category has
\* the target as parent or an item references the target; it removes the
\* target only when neither exists, and never another category or an item.
C11_DeleteCategoryGuard ==
    [][\A id \in CatIds :
          delete_category(id) =>
              /\ CategoryReferenced(id) =>
                    response'.status = 400 /\ categories' = categories
              /\ (id \in DOMAIN categories /\ ~CategoryReferenced(id)) =>
                    /\ response'.status = 200
                    /\ categories' = [c \in DOMAIN categories \ {id} |-> categories[c]]
              /\ \A c \in DOMAIN categories \ {id} :
                    c \in DOMAIN categories' /\ categories'[c] = categories[c]
              /\ nomenclature' = nomenclature]_vars

\* the only category of the table was the target of a delete_category that was
\* answered 400 because an item references it
C11_Witness ==
    /\ response.op = "delete_category" /\ response.status = 400
    /\ Cardinality(DOMAIN categories) = 1
    /\ \A c \in DOMAIN categories :
          /\ categories[c].parent_id = Null
          /\ \E n \in DOMAIN nomenclature : nomenclature[n].category_id = c

\* C12: every inventory item references a category that exists and is active.
C12_ItemsReferenceActiveCategory ==
    \A n \in DOMAIN nomenclature :
        ActiveCategory(categories, nomenclature[n].category_id)

\* C13: create_category and update_category with a parent_id that does not
\* identify an active category are answered 400 and leave the category table
\* unchanged.
C13_ParentMustBeActive ==
    [][/\ \A n \in NameSet, p \in {0} \cup CatIds :
             (create_category(n, p) /\ ~ActiveCategory(categories, p)) =>
                 response'.status = 400 /\ categories' = categories
       /\ \A id \in DOMAIN categories, r \in CategoryUpdates :
             (/\ update_category(id, r.name, r.parent_id, r.is_active)
              /\ r.parent_id # None
              /\ ~ActiveCategory(categories, r.parent_id)) =>
                 response'.status = 400 /\ categories' = categories]_vars

\* an active category with this name and this parent exists (both roots when
\* the request carries no parent)
SameNameSameParent(cats, name, parent_id) ==
    \E c \in DOMAIN cats :
        /\ cats[c].is_active
        /\ cats[c].name = name
        /\ IF parent_id = None THEN cats[c].parent_id = Null
           ELSE parent_id >= 1 /\ cats[c].parent_id = parent_id

\* C14: create_category answers 400 and inserts nothing when an active
\* category with the same name and the same parent exists, two roots included.
C14_DuplicateNameRejected ==
    [][\A n \in NameSet, p \in {None} \cup CatIds :
          (create_category(n, p) /\ SameNameSameParent(categories, n, p)) =>
              response'.status = 400 /\ categories' = categories]_vars

ExistingActiveClient(id) == id \in DOMAIN clients /\ clients[id].is_active

\* the item names no active inventory item, asks for more than its stock, or
\* carries another price than the item has
OffendingItem(item) ==
    \/ item.nomenclature_id \notin DOMAIN nomenclature
    \/ ~nomenclature[item.nomenclature_id].is_active
    \/ item.quantity > nomenclature[item.nomenclature_id].quantity
    \/ item.price # nomenclature[item.nomenclature_id].price

\* C15: create_order answers 400 and persists nothing (no order row, no order
\* item, no stock change) when the client is not an existing active client or
\* some item of the request, at whatever position, names no active inventory
\* item, asks for more than its stock or carries another price than the item.
\* Stated on the steps of create_order: an answer 400 leaves the three tables
\* as they were, and any other answer is given to requests of an existing
\* active client without offending item only.
C15_CreateOrderRejectsAndPersistsNothing ==
    [][response'.op = "create_order" =>
          IF response'.status = 400
          THEN /\ orders' = orders
               /\ order_items' = order_items
               /\ nomenclature' = nomenclature
          ELSE \A order \in OrderRequests :
                  create_order(order) =>
                      /\ ExistingActiveClient(order.client_id)
                      /\ \A i \in 1..Len(order.items) : ~OffendingItem(order.items[i])]_vars

\* a request of two items was answered 400 because of its second item: the
\* item the answer names is not the first of the request
C15_Witness ==
    /\ response.op = "create_order" /\ response.status = 400
    /\ Len(response.args) = 2
    /\ response.body.detail \in {"insufficient", "price changed"}
    /\ response.body.nomenclature_id = response.args[2]
    /\ response.args[1] # response.args[2]

\* C16: the answer of a successful create_order reports as total_amount the
\* sum of total_price over the items of the created order and as items_count
\* the number of these items.
C16_CreateOrderReportsTotal ==
    (response.op = "create_order" /\ response.status = 200) =>
        LET items == {oi \in order_items : oi.order_id = response.body.id}
        IN  /\ response.body.total_amount = SumFn([oi \in items |-> oi.total_price], items)
            /\ response.body.items_count = Cardinality(items)

\* C17: delete_order answers 400 and changes neither orders, order items nor
\* stock when the order is completed or processing; an order in any other
\* status is removed together with its items, and no other order or item is.
C17_DeleteOrderGuard ==
    [][\A id \in DOMAIN orders :
          delete_order(id) =>
              IF orders[id].status \in {"completed", "processing"}
              THEN /\ response'.status = 400
                   /\ orders' = orders
                   /\ order_items' = order_items
                   /\ nomenclature' = nomenclature
              ELSE /\ response'.status = 200
                   /\ orders' = [o \in DOMAIN orders \ {id} |-> orders[o]]
                   /\ order_items' = {oi \in order_items : oi.order_id # id}]_vars

\* the only order of the table is processing, has items, and its deletion was
\* answered 400
C17_Witness ==
    /\ response.op = "delete_order" /\ response.status = 400
    /\ Cardinality(DOMAIN orders) = 1
    /\ \A o \in DOMAIN orders :
          /\ orders[o].status = "processing"
          /\ \E oi \in order_items : oi.order_id = o

\* every order references an existing client, every order item an existing
\* order and an existing inventory item
SalesReferencesExist ==
    /\ \A o \in DOMAIN orders : orders[o].client_id \in DOMAIN clients
    /\ \A oi \in order_items :
          oi.order_id \in DOMAIN orders /\ oi.nomenclature_id \in DOMAIN nomenclature

\* C18: every order references an existing client and every order item an
\* existing inventory item; delete_client is answered 400 while an order
\* references the client, delete_nomenclature while an order item references
\* the item, and both leave the tables unchanged then.
C18_OrdersKeepTheirReferences ==
    /\ []SalesReferencesExist
    /\ [][/\ \A id \in 1..MaxClient :
                (delete_client(id) /\ \E o \in DOMAIN orders : orders[o].client_id = id) =>
                    response'.status = 400 /\ UNCHANGED <<clients, orders, order_items, nomenclature>>
          /\ \A id \in 1..MaxNom :
                (delete_nomenclature(id) /\ \E oi \in order_items : oi.nomenclature_id = id) =>
                    response'.status = 400 /\ UNCHANGED <<clients, orders, order_items, nomenclature>>]_vars

\* the deletion of a client that an order references was answered 400
C18_Witness ==
    /\ response.op = "delete_client" /\ response.status = 400
    /\ \E o \in DOMAIN orders : orders[o].client_id \in DOMAIN clients
    /\ \E oi \in order_items : oi.nomenclature_id \in DOMAIN nomenclature
\* C19: a request for page p of size s (p = 1 and s = 20 when left out) is
\* rejected when p < 1 or s is outside 1..100; otherwise the list returned is
\* the ordered result without its first (p - 1) * s rows, cut after s rows.
C19_PageFollowsTheRowsSkipped ==
    [][\A page \in PageNumbers \cup {None}, size \in PageSizes \cup {None} :
          get_category_children_count(page, size) =>
              LET p == IF page = None THEN 1 ELSE page
                  s == IF size = None THEN 20 ELSE size
              IN  IF p < 1 \/ s < 1 \/ s > 100
                  THEN response'.status = 422 /\ response'.body = <<>>
                  ELSE /\ response'.status = 200
                       /\ Len(response'.body) <= s
                       /\ \E ord \in OrderBy(ChildrenCountGroups(categories), CategoryName) :
                             response'.body =
                                 [i \in 1..Min2(s, Max2(0, Len(ord) - (p - 1) * s)) |->
                                     CategoryChildrenCount(ord[(p - 1) * s + i])]]_vars

\* page 2 of size 1 of three roots holds one row, the second name of the order
C19_Witness ==
    /\ ChildrenAnswered
    /\ response.args = <<2, 1>>
    /\ Cardinality(ActiveRoots(categories)) = 3
    /\ Len(response.body) = 1
    /\ \E r \in ActiveRoots(categories) : categories[r].name < response.body[1].category_name

CacheAbsent == redis_client = "None" \/ ~redis_up

\* C20: with the cache absent no call on the cache manager raises, get returns
\* None, set and delete return False, delete_pattern returns 0, and a wrapped
\* function returns what the function itself returns for the same argument.
C20_CacheAbsentChangesNothing ==
    CacheAbsent =>
        /\ response.op \in {"get", "set", "delete", "delete_pattern", "wrapper"} =>
              ~response.body.raised
        /\ response.op = "get" => response.body.value = PyNone
        /\ response.op \in {"set", "delete"} => response.body.value = FALSE
        /\ response.op = "delete_pattern" => response.body.value = 0
        /\ response.op = "wrapper" =>
              response.body.value = Call(response.args[3], response.args[4])

\* a wrapped function answered its argument while the Redis that holds another
\* value under the key of the call does not answer
C20_Witness ==
    /\ redis_client = "client"
    /\ ~redis_up
    /\ response.op = "wrapper"
    /\ response.args[3].returns = "argument"
    /\ response.body.value = PyList1
    /\ response.body.key \in DOMAIN redis_store
    /\ redis_store[response.body.key].value # PyList1.json

HierarchyAnswered ==
    response.op = "get_category_hierarchy" /\ response.status = 200

\* C21: the display string of every row of the hierarchy listing is the name
\* after exactly 2 * level spaces, at every level, so that a root row shows
\* the bare name.
C21_DisplayIsNamePaddedTwicePerLevel ==
    HierarchyAnswered =>
        \A i \in 1..Len(response.body) :
            LET row == response.body[i]
            IN  /\ row.level = categories[row.id].level
                /\ row.level >= 0
                /\ Len(row.full_path) = 2 * row.level + 1
                /\ \A j \in 1..(2 * row.level) : row.full_path[j] = " "
                /\ row.full_path[2 * row.level + 1] = ToString(categories[row.id].name)
                /\ row.level = 0 => row.full_path = <<ToString(row.name)>>

\* the listing of a chain that reaches below level 3
C21_Witness ==
    /\ HierarchyAnswered
    /\ \A l \in 0..4 : \E i \in 1..Len(response.body) : response.body[i].level = l
    /\ \E i \in 1..Len(response.body) :
          response.body[i].level = 4 /\ Len(response.body[i].full_path) = 9

\* the nodes of a list and of the children lists below them are in
\* ascending order of name
RECURSIVE OrderedByName(_)
OrderedByName(nodes) ==
    /\ \A i \in 1..(Len(nodes) - 1) : nodes[i].name <= nodes[i + 1].name
    /\ \A i \in 1..Len(nodes) : OrderedByName(nodes[i].children)

\* C22: the root list of the tree output and the children list of every node
\* are in ascending order of name.
C22_TreeOrderedByName ==
    TreeAnswered => OrderedByName(response.body)

\* the place of the row of category id in a listing
PositionOf(body, id) == CHOOSE i \in 1..Len(body) : body[i].id = id

\* the nodes of a list, and of the children lists below them, that a listing
\* holds follow one another in the listing as they do in the list
RECURSIVE SiblingsAsListed(_, _)
SiblingsAsListed(nodes, body) ==
    /\ \A i, j \in 1..Len(nodes) :
          i < j => PositionOf(body, nodes[i].id) < PositionOf(body, nodes[j].id)
    /\ \A i \in 1..Len(nodes) : SiblingsAsListed(nodes[i].children, body)

\* C23: the hierarchy listing holds every active category exactly once, each
\* after its parent and followed at once by the rows below it, and siblings
\* are listed in the order the tree output gives them.
C23_HierarchyIsPreOrder ==
    HierarchyAnswered =>
        LET body == response.body
            listed == {body[i].id : i \in 1..Len(body)}
        IN  /\ listed = ActiveCategories
            /\ \A i, j \in 1..Len(body) : i # j => body[i].id # body[j].id
            /\ \A i \in 1..Len(body) :
                  categories[body[i].id].parent_id # Null =>
                      \E j \in 1..(i - 1) : body[j].id = categories[body[i].id].parent_id
            /\ \A i \in 1..Len(body) :
                  LET below == {c \in listed \ {body[i].id} :
                                   body[i].id \in Ancestors(categories, c)}
                  IN  \A j \in 1..Len(body) :
                          body[j].id \in below <=> (i < j /\ j <= i + Cardinality(below))
            /\ SiblingsAsListed(BuildTree(OrderByPath(category_tree(categories))), body)

SummaryAnswered ==
    response.op = "get_client_order_summary" /\ response.status = 200

\* the orders of client c that are not cancelled
LiveOrdersOf(c) ==
    {o \in DOMAIN orders : orders[o].client_id = c /\ orders[o].status # "cancelled"}

\* C24: the client order summary holds one row for every active client that
\* LIMIT / OFFSET leave, with the number of the client's orders that are not
\* cancelled and the sum of total_price over the items of these orders (0 when
\* there is none); a page that covers the clients lists every active client.
C24_SummaryPerActiveClient ==
    SummaryAnswered =>
        LET body == response.body
            page == response.args[1]
            size == response.args[2]
            active == {c \in DOMAIN clients : clients[c].is_active}
        IN  /\ Len(body) = Min2(size, Max2(0, Cardinality(active) - (page - 1) * size))
            /\ \E f \in [1..Len(body) -> active] :
                  /\ \A i, j \in 1..Len(body) : i # j => f[i] # f[j]
                  /\ \A i \in 1..Len(body) :
                        LET mine == {oi \in order_items : oi.order_id \in LiveOrdersOf(f[i])}
                        IN  /\ body[i].client_name = clients[f[i]].name
                            /\ body[i].orders_count = Cardinality(LiveOrdersOf(f[i]))
                            /\ body[i].total_amount =
                                  SumFn([oi \in mine |-> oi.total_price], mine)

\* two active clients are listed, one of them with a cancelled order and an
\* order that counts, the other with no order at all
C24_Witness ==
    /\ SummaryAnswered
    /\ Len(response.body) = 2
    /\ response.body[1].orders_count = 1
    /\ response.body[1].total_amount > 0
    /\ response.body[2].orders_count = 0
    /\ response.body[2].total_amount = 0
    /\ \E o \in DOMAIN orders : orders[o].status = "cancelled"
    /\ \A o \in DOMAIN orders : clients[orders[o].client_id].is_active

WrapperAnswered(r) == r.op = "wrapper"

\* C25: a call of a wrapped function whose key holds a value returns that
\* value without running the function and leaves the cache alone; a call
\* whose key holds none runs the function once, returns its result and leaves
\* it under the key with the ttl given to cached (CACHE_TTL when none is).
C25_LookAside ==
    [][WrapperAnswered(response') =>
          LET key == response'.body.key
              ttl == response'.args[2]
              result == Call(response'.args[3], response'.args[4])
          IN  IF key \in DOMAIN redis_store
              THEN /\ response'.body.calls = 0
                   /\ Serialized(response'.body.value) = redis_store[key].value
                   /\ redis_store' = redis_store
              ELSE /\ response'.body.calls = 1
                   /\ response'.body.value = result
                   /\ key \in DOMAIN redis_store'
                   /\ redis_store'[key] =
                         [value |-> Serialized(result),
                          ttl |-> IF ttl = None THEN CACHE_TTL ELSE ttl]]_vars

\* C26: a get that follows the set of a value under the same key returns a
\* value equal to the one set, and a call of a wrapped function that is
\* answered from what the same call stored just before returns what that
\* call returned.
C26_GetReturnsWhatSetStored ==
    [][/\ (/\ response.op = "set"
           /\ response.body.value = TRUE
           /\ response'.op = "get"
           /\ response'.args[1] = response.args[1])
          => response'.body.value = response.args[2]
       /\ (/\ WrapperAnswered(response)
           /\ response.body.calls = 1
           /\ WrapperAnswered(response')
           /\ response'.args = response.args
           /\ response'.body.calls = 0)
          => response'.body.value = response.body.value]_vars

\* the quantity of item n that the existing order items hold
HeldByOrders(n) ==
    LET held == {oi \in order_items : oi.nomenclature_id = n}
    IN  SumFn([oi \in held |-> oi.quantity], held)

\* C27: the stock of every inventory item plus the quantities its existing
\* order items hold is the stock the item was created with, after any run of
\* create_order and delete_order.
C27_StockConserved ==
    \A n \in DOMAIN nomenclature :
        nomenclature[n].quantity + HeldByOrders(n) = MaxQty

\* an order was deleted and its quantity returned while another order still
\* holds a part of the stock
C27_Witness ==
    /\ response.op = "delete_order"
    /\ response.status = 200
    /\ \E n \in DOMAIN nomenclature :
          HeldByOrders(n) > 0 /\ nomenclature[n].quantity > 0

\* C28: the stock of an article is never negative, also when two
\* create_order requests for it have both passed their stock check before
\* either takes its quantity from the stock.
C28_StockNeverNegative ==
    \A n \in DOMAIN nomenclature : nomenclature[n].quantity >= 0

\* C29: a category that has a child is not removed, also when the child is
\* attached by create_category or update_category after delete_category has
\* counted the children and before its DELETE: no step removes a row that
\* another row names as its parent, and no row is left with a parent that is
\* not in the table.
C29_ParentNeverRemoved ==
    [][/\ \A c \in DOMAIN categories :
             (\E k \in DOMAIN categories : categories[k].parent_id = c)
                 => c \in DOMAIN categories'
       /\ \A k \in DOMAIN categories' :
             categories'[k].parent_id # Null
                 => categories'[k].parent_id \in DOMAIN categories']_vars

\* the values a call binds to the parameters x and y of func(x=None, y=None)
BoundArguments(arg) ==
    <<BoundToX(arg),
      IF Len(arg.args) >= 2 THEN arg.args[2]
      ELSE IF \E i \in 1..Len(arg.kwargs) : arg.kwargs[i].name = "y"
      THEN arg.kwargs[CHOOSE i \in 1..Len(arg.kwargs) : arg.kwargs[i].name = "y"].value
      ELSE PyNone>>

\* prefix, function name and bound arguments of the call a response answers
CallOf(r) == <<r.args[1], r.args[3].name, BoundArguments(r.args[4])>>

\* C30: two calls of cached functions that differ in prefix, function name or
\* arguments do not share a cache key, also when an argument's text holds ':'
\* and when the keyword arguments come under different names.
C30_KeysDistinct ==
    [][(/\ WrapperAnswered(response) /\ WrapperAnswered(response')
        /\ CallOf(response) # CallOf(response'))
           => response.body.key # response'.body.key]_vars

====
